---- MODULE Spec2Model ----
(***************************************************************************)
(* Model of InstagramScraper ("insta scrapper with ai analysis.py"): the   *)
(* scrape_and_analyze pipeline with download_media, get_file_extension,    *)
(* create_download_directory and analyze_images.                           *)
(*                                                                         *)
(* Python strings are sequences of one-character strings, so that URL      *)
(* parsing, extension extraction and path building are computed character  *)
(* by character as the library code computes them.                         *)
(***************************************************************************)
EXTENDS Integers, Sequences, FiniteSets, TLC

\* Python's None, also the value of dict.get for a missing key (a value that
\* is no string of characters).
None == <<"None">>

---------------------------------------------------------------------------
\* String helpers (str methods used by urllib.parse and posixpath)

\* str.find(c): index (1-based) of the first c in s, 0 when absent.
RECURSIVE FindFrom(_, _, _)
FindFrom(s, c, k) ==
    IF k > Len(s) THEN 0
    ELSE IF s[k] = c THEN k
    ELSE FindFrom(s, c, k + 1)

Find(s, c) == FindFrom(s, c, 1)

\* str.rfind(c): index (1-based) of the last c in s, 0 when absent.
RECURSIVE RFindFrom(_, _, _)
RFindFrom(s, c, k) ==
    IF k < 1 THEN 0
    ELSE IF s[k] = c THEN k
    ELSE RFindFrom(s, c, k - 1)

RFind(s, c) == RFindFrom(s, c, Len(s))

Contains(s, c) == Find(s, c) > 0

\* s[a..b] with Python's tolerance for empty slices.
Slice(s, a, b) == IF a > b THEN <<>> ELSE SubSeq(s, a, b)

StartsWith(s, prefix) ==
    /\ Len(s) >= Len(prefix)
    /\ Slice(s, 1, Len(prefix)) = prefix

UpperChars == {"A", "B", "C", "G", "I", "J", "M", "N", "P"}

LowerChar(c) ==
    CASE c = "A" -> "a" [] c = "B" -> "b" [] c = "C" -> "c"
      [] c = "G" -> "g" [] c = "I" -> "i" [] c = "J" -> "j"
      [] c = "M" -> "m" [] c = "N" -> "n" [] c = "P" -> "p"
      [] OTHER -> c

\* str.lower()
Lower(s) == [k \in 1..Len(s) |-> LowerChar(s[k])]

Digit(d) ==
    CASE d = 0 -> "0" [] d = 1 -> "1" [] d = 2 -> "2" [] d = 3 -> "3"
      [] d = 4 -> "4" [] d = 5 -> "5" [] d = 6 -> "6" [] d = 7 -> "7"
      [] d = 8 -> "8" [] d = 9 -> "9"

\* The decimal text an f-string gives for a non-negative int.
RECURSIVE DecStr(_)
DecStr(n) ==
    IF n < 10 THEN <<Digit(n)>>
    ELSE DecStr(n \div 10) \o <<Digit(n % 10)>>

---------------------------------------------------------------------------
\* urllib.parse.urlparse, reduced to what get_file_extension reads: the path
\* component, or the ValueError urlsplit raises for an unbalanced bracket in
\* the network location.

SchemeChars ==
    {"a", "b", "c", "d", "e", "f", "g", "h", "i", "j", "k", "l", "m", "n",
     "o", "p", "q", "r", "s", "t", "u", "v", "w", "x", "y", "z",
     "0", "1", "2", "3", "4", "5", "6", "7", "8", "9", "+", "-", "."}

\* The text after "scheme:" when the URL starts with a scheme, else the URL.
AfterScheme(url) ==
    LET c == Find(url, ":")
    IN  IF /\ c > 1
           /\ \A k \in 1..(c - 1) : LowerChar(url[k]) \in SchemeChars
           /\ LowerChar(url[1]) \notin {"0", "1", "2", "3", "4", "5", "6", "7",
                                        "8", "9", "+", "-", "."}
        THEN Slice(url, c + 1, Len(url))
        ELSE url

\* First index >= k of one of the delimiters "/", "?", "#"; Len(s)+1 if none.
RECURSIVE NetlocEnd(_, _)
NetlocEnd(s, k) ==
    IF k > Len(s) THEN Len(s) + 1
    ELSE IF s[k] \in {"/", "?", "#"} THEN k
    ELSE NetlocEnd(s, k + 1)

HasNetloc(rest) == StartsWith(rest, <<"/", "/">>)

Netloc(rest) ==
    IF HasNetloc(rest) THEN Slice(rest, 3, NetlocEnd(rest, 3) - 1) ELSE <<>>

AfterNetloc(rest) ==
    IF HasNetloc(rest) THEN Slice(rest, NetlocEnd(rest, 3), Len(rest)) ELSE rest

\* urlsplit raises ValueError("Invalid IPv6 URL") on these network locations.
UrlParseRaises(url) ==
    LET n == Netloc(AfterScheme(url))
    IN  \/ Contains(n, "[") /\ ~Contains(n, "]")
        \/ Contains(n, "]") /\ ~Contains(n, "[")

CutAt(s, c) == IF Contains(s, c) THEN Slice(s, 1, Find(s, c) - 1) ELSE s

\* urlparse's _splitparams: the parameters of the last path segment go.
SplitParams(p) ==
    LET from == IF Contains(p, "/") THEN RFind(p, "/") ELSE 1
        semi == FindFrom(p, ";", from)
    IN  IF semi = 0 THEN p ELSE Slice(p, 1, semi - 1)

\* urlparse(url).path
UrlPath(url) ==
    SplitParams(CutAt(CutAt(AfterNetloc(AfterScheme(url)), "#"), "?"))

\* posixpath.splitext(p)[1]: from the last dot of the last component,
\* unless that component has only dots before it.
SplitExt(p) ==
    LET sepIndex == RFind(p, "/")
        dotIndex == RFind(p, ".")
    IN  IF /\ dotIndex > sepIndex
           /\ \E k \in (sepIndex + 1)..(dotIndex - 1) : p[k] # "."
        THEN Slice(p, dotIndex, Len(p))
        ELSE <<>>

DefaultExt == <<".", "j", "p", "g">>

\* get_file_extension(url), for a URL urlparse accepts.
get_file_extension(url) ==
    LET ext == Lower(SplitExt(UrlPath(url)))
    IN  IF ext # <<>> THEN ext ELSE DefaultExt

---------------------------------------------------------------------------
\* pathlib: a Path is the sequence of its parts, str(path) joins them.

RECURSIVE PathParts(_)
PathParts(s) ==
    IF s = <<>> THEN <<>>
    ELSE LET cut == Find(s, "/")
         IN  IF cut = 0 THEN <<s>>
             ELSE IF cut = 1 THEN PathParts(Tail(s))
             ELSE <<Slice(s, 1, cut - 1)>> \o PathParts(Slice(s, cut + 1, Len(s)))

\* path / name
PathJoin(path, name) == path \o PathParts(name)

\* str(path)
RECURSIVE PathStr(_)
PathStr(path) ==
    IF path = <<>> THEN <<".">>
    ELSE IF Len(path) = 1 THEN path[1]
    ELSE path[1] \o <<"/">> \o PathStr(Tail(path))

---------------------------------------------------------------------------
\* Bounds and inputs

\* Largest dataset: the number of media descriptors (one per post for its
\* top-level fields, one per carousel item) over all posts.
MaxDescriptors == 3

VidUrl == <<"h", "t", "t", "p", ":", "/", "/", "h", "/", "v", ".", "M", "P", "4", "?", "a", "=", "b", ".", "c">>
ImgUrl == <<"h", "t", "t", "p", ":", "/", "/", "h", "/", "a", ".", "b", "/", "i", "m", "g", ";", "x", ".", "p", "n", "g">>
\* A URL urlparse rejects (ValueError: Invalid IPv6 URL).
BadUrl == <<"h", "t", "t", "p", ":", "/", "/", "[", "h", "/", "v", ".", "m", "p", "4">>

UserName == <<"u">>

VideoUrlValues == {None, VidUrl, BadUrl}
DisplayUrlValues == {None, ImgUrl}

\* The videoUrl / displayUrl fields of a post or of a carousel item.
Descriptors == [videoUrl : VideoUrlValues, displayUrl : DisplayUrlValues]

Tuples(S, n) == [1..n -> S]

\* Posts with k descriptors: the post's own and k - 1 sidecarItems.
PostsOfSize(k) ==
    { [videoUrl |-> d.videoUrl, displayUrl |-> d.displayUrl, sidecarItems |-> s] :
        d \in Descriptors, s \in Tuples(Descriptors, k - 1) }

\* Post lists with at most n descriptors in all.
RECURSIVE Datasets(_)
Datasets(n) ==
    {<<>>} \cup
    UNION { { <<p>> \o rest : p \in PostsOfSize(k), rest \in Datasets(n - k) } :
            k \in 1..n }

\* The datasets the scraper may return.
DatasetValues == Datasets(MaxDescriptors)

\* What the try block of download_media can do: run to its end, or raise
\* (requests.get, raise_for_status, open, iter_content or file.write).
DownloadOutcomes == {"ok", "error"}

\* What reading one image and calling the vision client can do.
AnalysisOutcomes == {"ok", "vision_error"}

\* Python truthiness of a value returned by dict.get.
Truthy(v) == v # None /\ v # <<>>

---------------------------------------------------------------------------
\* State

VARIABLES
    pc,                 \* position in scrape_and_analyze
    fs,                 \* the file system: str(path) -> content
    response,           \* response.content of the dataset request
    posts,              \* posts
    i,                  \* post index of the enumerate loop
    j,                  \* carousel index of the inner loop
    downloaded_images,  \* downloaded_images
    analysis_results,   \* results of analyze_images
    k,                  \* analyze_images: how many image_paths the loop has taken
    result,             \* the returned dict
    attempts,           \* log: every download_media call, in call order
    raisedAt,           \* log: <<i, j>> of each exception the per-post handler caught
    analysisLog,        \* log: what each pass of analyze_images met (ok or the failure)
    failedStep          \* log: the pipeline step whose exception ended the run

vars == <<pc, fs, response, posts, i, j, downloaded_images, analysis_results, k, analysisLog,
          result, attempts, raisedAt, failedStep>>

---------------------------------------------------------------------------
\* Files and directories

\* File contents: [type, data] with type dir, media, partial or json.
Dir == [type |-> "dir", data |-> <<>>]

Partial == [type |-> "partial", data |-> <<>>]

Media(url) == [type |-> "media", data |-> url]

\* json.dump(value, file, indent=2)
Json(value) == [type |-> "json", data |-> value]

NoFiles == [p \in {} |-> Dir]

WriteFile(fsys, path, content) ==
    [p \in DOMAIN fsys \cup {PathStr(path)} |->
        IF p = PathStr(path) THEN content ELSE fsys[p]]

\* Path.mkdir(parents=True, exist_ok=True)
Mkdir(fsys, path) ==
    IF PathStr(path) \in DOMAIN fsys THEN fsys ELSE WriteFile(fsys, path, Dir)

BaseDir(username) ==
    PathParts(<<"i", "n", "s", "t", "a", "g", "r", "a", "m", "_", "d", "o", "w", "n", "l", "o", "a", "d", "s">>
              \o <<"/">> \o username)

ImagesDir(username) == PathJoin(BaseDir(username), <<"i", "m", "a", "g", "e", "s">>)

VideosDir(username) == PathJoin(BaseDir(username), <<"v", "i", "d", "e", "o", "s">>)

\* create_download_directory(username): the file system after the three mkdirs.
create_download_directory(fsys, username) ==
    Mkdir(Mkdir(Mkdir(fsys, BaseDir(username)), ImagesDir(username)), VideosDir(username))

MetadataPath(username) ==
    PathJoin(BaseDir(username), <<"m", "e", "t", "a", "d", "a", "t", "a", ".", "j", "s", "o", "n">>)

\* Variant: the analysis results are written over metadata.json.
AnalysisPath_Metadata(username) == MetadataPath(username)

AnalysisPath(username) ==
    PathJoin(BaseDir(username),
             <<"a", "n", "a", "l", "y", "s", "i", "s", "_", "r", "e", "s", "u", "l", "t", "s", ".", "j", "s", "o", "n">>)

\* f"post_{i}"
PostName(idx) == <<"p", "o", "s", "t", "_">> \o DecStr(idx)

\* Variant: the carousel index is left out of the file name.
CarouselName_NoIndex(idx, jdx) ==
    <<"p", "o", "s", "t", "_">> \o DecStr(idx)
        \o <<"_", "c", "a", "r", "o", "u", "s", "e", "l", "_">>

\* f"post_{i}_carousel_{j}"
CarouselName(idx, jdx) ==
    <<"p", "o", "s", "t", "_">> \o DecStr(idx)
        \o <<"_", "c", "a", "r", "o", "u", "s", "e", "l", "_">> \o DecStr(jdx)

---------------------------------------------------------------------------
\* download_media and the post loop

\* Variant: no try/except, a failure is raised to the caller.
download_media_Raises(outcome) ==
    IF outcome = "ok" THEN "True" ELSE "raise"

\* download_media(url, save_path): what the call gives its caller. The
\* try/except turns every failure into a False return.
download_media(outcome) ==
    IF outcome = "ok" THEN "True" ELSE "False"

\* The file system after download_media: the whole body on success. After a
\* failure the file is unfinished; a failure before open() leaves no file at
\* all, which nothing later can tell apart, as the path of a failed download
\* is never opened again.
FsAfterDownload(fsys, save_path, url, outcome) ==
    IF outcome = "ok"
    THEN WriteFile(fsys, save_path, Media(url))
    ELSE WriteFile(fsys, save_path, Partial)

\* Variant: the path is appended whatever download_media returned.
CollectImage_Always(images, save_path, returned) ==
    Append(images, save_path)

\* "if self.download_media(...): downloaded_images.append(save_path)"
CollectImage(images, save_path, returned) ==
    IF returned = "True" THEN Append(images, save_path) ELSE images

\* The enumerate loop moves on from post idx of n posts.
LoopAdvance(idx, n) ==
    IF idx < n THEN [pc |-> "top_video", i |-> idx + 1]
    ELSE [pc |-> "analyze", i |-> idx]

NoResult == [status |-> "none"]

ErrorResult(message) == [status |-> "error", error |-> message]

\* Variant: no per-post handler, the exception reaches the outer except.
OnPostError_Abort(idx, n) ==
    [pc |-> "returned", i |-> idx, result |-> ErrorResult("post")]

\* "except Exception as e: logger.error(...); continue" of the post loop.
OnPostError(idx, n) ==
    [pc |-> LoopAdvance(idx, n).pc, i |-> LoopAdvance(idx, n).i, result |-> NoResult]

\* An exception raised while post i is processed, at descriptor jj of it
\* (0: the post's own fields).
PostFails(jj) ==
    /\ pc' = OnPostError(i, Len(posts)).pc
    /\ i' = OnPostError(i, Len(posts)).i
    /\ result' = OnPostError(i, Len(posts)).result
    /\ j' = 0
    /\ raisedAt' = raisedAt \cup {<<i, jj>>}

\* ext = get_file_extension(url); save_path = dir / f"{name}{ext}";
\* if self.download_media(url, save_path): ...
Fetch(url, dir, name, kind, jj, contPc, contJ) ==
    IF UrlParseRaises(url)
    THEN /\ PostFails(jj)
         /\ UNCHANGED <<fs, attempts, downloaded_images>>
    ELSE \E outcome \in DownloadOutcomes :
            LET save_path == PathJoin(dir, name \o get_file_extension(url))
                returned == download_media(outcome)
            IN  /\ fs' = FsAfterDownload(fs, save_path, url, outcome)
                /\ attempts' = Append(attempts,
                        [i |-> i, j |-> jj, kind |-> kind, url |-> url,
                         path |-> PathStr(save_path), returned |-> returned])
                /\ downloaded_images' =
                        IF kind = "image"
                        THEN CollectImage(downloaded_images, save_path, returned)
                        ELSE downloaded_images
                /\ IF returned = "raise"
                   THEN PostFails(jj)
                   ELSE /\ pc' = contPc
                        /\ j' = contJ
                        /\ UNCHANGED <<i, result, raisedAt>>

Skip(contPc, contJ) ==
    /\ pc' = contPc
    /\ j' = contJ
    /\ UNCHANGED <<fs, attempts, downloaded_images, i, result, raisedAt>>

---------------------------------------------------------------------------
\* analyze_images

\* The record of a successful analysis (the vision responses are opaque).
AnalysisRecord(image_path) ==
    [image_path |-> PathStr(image_path), faces |-> "face_annotations",
     labels |-> "label_annotations", safe_search |-> "safe_search_annotation"]

ErrorRecord(image_path, message) ==
    [image_path |-> PathStr(image_path), error |-> message]

\* Variant: the except branch logs the failure and appends nothing.
AnalyzeOne_DropFailed(results, image_path, outcome) ==
    IF outcome = "ok"
    THEN Append(results, AnalysisRecord(image_path))
    ELSE results

\* One pass of "for image_path in image_paths": results after it.
AnalyzeOne(results, image_path, outcome) ==
    IF outcome = "ok"
    THEN Append(results, AnalysisRecord(image_path))
    ELSE Append(results, ErrorRecord(image_path, outcome))

\* open(image_path, 'rb') fails when there is no such file.
Readable(fsys, image_path) ==
    /\ PathStr(image_path) \in DOMAIN fsys
    /\ fsys[PathStr(image_path)].type # "dir"

\* Variant: only the records without an error are counted.
ImagesAnalyzed_SuccessOnly(results) ==
    Len(SelectSeq(results, LAMBDA r : "error" \notin DOMAIN r))

\* len(analysis_results) as reported in the summary.
ImagesAnalyzed(results) == Len(results)

SuccessResult(username, postList, results) ==
    [status |-> "success",
     base_directory |-> PathStr(BaseDir(username)),
     posts_processed |-> Len(postList),
     images_analyzed |-> ImagesAnalyzed(results),
     metadata_path |-> PathStr(MetadataPath(username)),
     analysis_path |-> PathStr(AnalysisPath(username))]

---------------------------------------------------------------------------
\* scrape_and_analyze, step by step

Init ==
    /\ pc = "start"
    /\ fs \in {NoFiles, create_download_directory(NoFiles, UserName)}
    /\ response = <<>>
    /\ posts = <<>>
    /\ i = 0
    /\ j = 0
    /\ downloaded_images = <<>>
    /\ analysis_results = <<>>
    /\ k = 0
    /\ analysisLog = <<>>
    /\ result = NoResult
    /\ attempts = <<>>
    /\ raisedAt = {}
    /\ failedStep = "none"

\* The outer "except Exception as e: return {'status': 'error', ...}".
ReturnError(step) ==
    /\ pc' = "returned"
    /\ result' = ErrorResult(step)
    /\ failedStep' = step

\* Line 148: create_download_directory(username), before the try block.
CreateDirectories ==
    /\ pc = "start"
    /\ fs' = create_download_directory(fs, UserName)
    /\ pc' = "call_actor"
    /\ UNCHANGED <<response, posts, i, j, downloaded_images, analysis_results, k, analysisLog,
                   result, attempts, raisedAt, failedStep>>

\* A mkdir raises (no permission, a file in the way): nothing catches it.
CreateDirectoriesFails ==
    /\ pc = "start"
    /\ fs' \in {fs, Mkdir(fs, BaseDir(UserName))}
    /\ pc' = "raised"
    /\ failedStep' = "mkdir"
    /\ UNCHANGED <<response, posts, i, j, downloaded_images, analysis_results, k, analysisLog,
                   result, attempts, raisedAt>>

\* self.client.actor("apify/instagram-scraper").call(run_input=run_input)
CallActor ==
    /\ pc = "call_actor"
    /\ pc' = "get_dataset"
    /\ UNCHANGED <<fs, response, posts, i, j, downloaded_images, analysis_results, k, analysisLog,
                   result, attempts, raisedAt, failedStep>>

CallActorFails ==
    /\ pc = "call_actor"
    /\ ReturnError("actor")
    /\ UNCHANGED <<fs, response, posts, i, j, downloaded_images, analysis_results, k, analysisLog,
                   attempts, raisedAt>>

\* requests.get(dataset_url, timeout=30); response.raise_for_status()
GetDataset ==
    /\ pc = "get_dataset"
    /\ response' \in DatasetValues
    /\ pc' = "save_metadata"
    /\ UNCHANGED <<fs, posts, i, j, downloaded_images, analysis_results, k, analysisLog,
                   result, attempts, raisedAt, failedStep>>

GetDatasetFails ==
    /\ pc = "get_dataset"
    /\ ReturnError("dataset")
    /\ UNCHANGED <<fs, response, posts, i, j, downloaded_images, analysis_results, k, analysisLog,
                   attempts, raisedAt>>

\* Lines 167-172: write metadata.json, then posts = json.loads(...),
\* downloaded_images = [] and the loop takes its first post.
SaveMetadata ==
    /\ pc = "save_metadata"
    /\ fs' = WriteFile(fs, MetadataPath(UserName), Json(response))
    /\ posts' = response
    /\ downloaded_images' = <<>>
    /\ pc' = LoopAdvance(0, Len(response)).pc
    /\ i' = LoopAdvance(0, Len(response)).i
    /\ UNCHANGED <<response, j, analysis_results, k, analysisLog, result, attempts, raisedAt,
                   failedStep>>

\* open() or json.dump raises: the file is missing or opened and unfinished.
SaveMetadataFails ==
    /\ pc = "save_metadata"
    /\ fs' \in {fs, WriteFile(fs, MetadataPath(UserName), Partial)}
    /\ ReturnError("metadata")
    /\ UNCHANGED <<response, posts, i, j, downloaded_images, analysis_results, k, analysisLog,
                   attempts, raisedAt>>

\* Lines 178-182: "if post.get('videoUrl')".
TopVideo ==
    /\ pc = "top_video"
    /\ IF Truthy(posts[i].videoUrl)
       THEN Fetch(posts[i].videoUrl, VideosDir(UserName), PostName(i), "video",
                  0, "top_image", 0)
       ELSE Skip("top_image", 0)
    /\ UNCHANGED <<response, posts, analysis_results, k, analysisLog, failedStep>>

\* Lines 185-190: "if post.get('displayUrl') and not post.get('videoUrl')".
TopImage ==
    /\ pc = "top_image"
    /\ IF Truthy(posts[i].displayUrl) /\ ~Truthy(posts[i].videoUrl)
       THEN Fetch(posts[i].displayUrl, ImagesDir(UserName), PostName(i), "image",
                  0, "carousel", 1)
       ELSE Skip("carousel", 1)
    /\ UNCHANGED <<response, posts, analysis_results, k, analysisLog, failedStep>>

\* Lines 194-205: one item of "for j, item in enumerate(post['sidecarItems'], 1)".
CarouselItem ==
    /\ pc = "carousel"
    /\ j <= Len(posts[i].sidecarItems)
    /\ LET item == posts[i].sidecarItems[j]
       IN  IF Truthy(item.displayUrl) /\ ~Truthy(item.videoUrl)
           THEN Fetch(item.displayUrl, ImagesDir(UserName), CarouselName(i, j),
                      "image", j, "carousel", j + 1)
           ELSE IF Truthy(item.videoUrl)
           THEN Fetch(item.videoUrl, VideosDir(UserName), CarouselName(i, j),
                      "video", j, "carousel", j + 1)
           ELSE Skip("carousel", j + 1)
    /\ UNCHANGED <<response, posts, analysis_results, k, analysisLog, failedStep>>

\* The carousel (if any) is exhausted: the post loop takes its next post.
EndPost ==
    /\ pc = "carousel"
    /\ j > Len(posts[i].sidecarItems)
    /\ pc' = LoopAdvance(i, Len(posts)).pc
    /\ i' = LoopAdvance(i, Len(posts)).i
    /\ j' = 0
    /\ UNCHANGED <<fs, response, posts, downloaded_images, analysis_results, k, analysisLog,
                   result, attempts, raisedAt, failedStep>>

\* Lines 82-130: analyze_images takes its next image_path.
AnalyzeImage ==
    /\ pc = "analyze"
    /\ k < Len(downloaded_images)
    /\ \E outcome \in AnalysisOutcomes :
          LET image_path == downloaded_images[k + 1]
              met == IF Readable(fs, image_path) THEN outcome ELSE "read_error"
          IN  /\ analysis_results' = AnalyzeOne(analysis_results, image_path, met)
              /\ analysisLog' = Append(analysisLog, met)
    /\ k' = k + 1
    /\ UNCHANGED <<pc, fs, response, posts, i, j, downloaded_images, result,
                   attempts, raisedAt, failedStep>>

\* Lines 215-226: write analysis_results.json and return the summary.
SaveAnalysis ==
    /\ pc = "analyze"
    /\ k = Len(downloaded_images)
    /\ fs' = WriteFile(fs, AnalysisPath(UserName), Json(analysis_results))
    /\ result' = SuccessResult(UserName, posts, analysis_results)
    /\ pc' = "returned"
    /\ UNCHANGED <<response, posts, i, j, downloaded_images, analysis_results, k, analysisLog,
                   attempts, raisedAt, failedStep>>

SaveAnalysisFails ==
    /\ pc = "analyze"
    /\ k = Len(downloaded_images)
    /\ fs' \in {fs, WriteFile(fs, AnalysisPath(UserName), Partial)}
    /\ ReturnError("analysis_write")
    /\ UNCHANGED <<response, posts, i, j, downloaded_images, analysis_results, k, analysisLog,
                   attempts, raisedAt>>

Next ==
    \/ CreateDirectories
    \/ CreateDirectoriesFails
    \/ CallActor
    \/ CallActorFails
    \/ GetDataset
    \/ GetDatasetFails
    \/ SaveMetadata
    \/ SaveMetadataFails
    \/ TopVideo
    \/ TopImage
    \/ CarouselItem
    \/ EndPost
    \/ AnalyzeImage
    \/ SaveAnalysis
    \/ SaveAnalysisFails

Spec == Init /\ [][Next]_vars

---------------------------------------------------------------------------
\* analyze_images on its own, called with any list of paths

\* Longest list of image paths given to analyze_images.
MaxImages == 3

ImagePath(idx) == PathJoin(ImagesDir(UserName), PostName(idx) \o DefaultExt)

\* Two image files exist, post_3.jpg does not.
ImageFiles ==
    WriteFile(WriteFile(create_download_directory(NoFiles, UserName),
                        ImagePath(1), Media(ImgUrl)),
              ImagePath(2), Media(ImgUrl))

ImagePathLists ==
    UNION { Tuples({ImagePath(1), ImagePath(2), ImagePath(3)}, n) : n \in 0..MaxImages }

InitAnalyze ==
    /\ pc = "analyze"
    /\ fs = ImageFiles
    /\ response = <<>>
    /\ posts = <<>>
    /\ i = 0
    /\ j = 0
    /\ downloaded_images \in ImagePathLists
    /\ analysis_results = <<>>
    /\ k = 0
    /\ analysisLog = <<>>
    /\ result = NoResult
    /\ attempts = <<>>
    /\ raisedAt = {}
    /\ failedStep = "none"

NextAnalyze == AnalyzeImage

SpecAnalyze == InitAnalyze /\ [][NextAnalyze]_vars

---------------------------------------------------------------------------
\* Vocabulary of the properties

LoopPcs == {"top_video", "top_image", "carousel"}

\* The post loop has ended (analyze_images is running or has returned).
LoopDone ==
    \/ pc = "analyze"
    \/ pc = "returned" /\ failedStep \in {"none", "analysis_write"}

\* analyze_images has returned.
AnalysisReturned ==
    \/ pc = "analyze" /\ k = Len(downloaded_images)
    \/ pc = "returned" /\ failedStep \in {"none", "analysis_write"}

\* Post p has been left by the loop.
Processed(p) ==
    \/ LoopDone
    \/ pc \in LoopPcs /\ i > p

\* The media slots of the dataset: <<p, 0>> is post p itself, <<p, q>> its
\* q-th carousel item.
Slots(postList) ==
    { <<p, 0>> : p \in 1..Len(postList) }
        \cup UNION { { <<p, q>> : q \in 1..Len(postList[p].sidecarItems) } :
                     p \in 1..Len(postList) }

Desc(postList, slot) ==
    IF slot[2] = 0 THEN postList[slot[1]]
    ELSE postList[slot[1]].sidecarItems[slot[2]]

HasVideo(d) == d.videoUrl # None /\ d.videoUrl # <<>>

HasDisplay(d) == d.displayUrl # None /\ d.displayUrl # <<>>

AttemptsAt(slot) ==
    { n \in 1..Len(attempts) : attempts[n].i = slot[1] /\ attempts[n].j = slot[2] }

\* The slot's URL is one the URL parser rejects.
UrlRejected(postList, slot) ==
    LET d == Desc(postList, slot)
    IN  \/ HasVideo(d) /\ UrlParseRaises(d.videoUrl)
        \/ ~HasVideo(d) /\ HasDisplay(d) /\ UrlParseRaises(d.displayUrl)

\* An exception of post slot[1] is raised at this slot or before it.
Barred(postList, slot) ==
    \E q \in 0..slot[2] : UrlRejected(postList, <<slot[1], q>>)

Later(slot, than) ==
    \/ slot[1] > than[1]
    \/ slot[1] = than[1] /\ slot[2] > than[2]

StrsOf(paths) == [n \in 1..Len(paths) |-> PathStr(paths[n])]

RecordPaths(results) == [n \in 1..Len(results) |-> results[n].image_path]

IsImageDownloaded(a) == a.kind = "image" /\ a.returned = "True"

\* The paths of the successful image downloads, in download order.
ImagePathsDownloaded ==
    LET ok == SelectSeq(attempts, IsImageDownloaded)
    IN  [n \in 1..Len(ok) |-> ok[n].path]

Distinct(seq) == \A m, n \in 1..Len(seq) : m # n => seq[m] # seq[n]

Terminated == pc \in {"returned", "raised"}

---------------------------------------------------------------------------
\* Properties

\* C1 (safety part): while analyze_images runs its results are the records of
\* the first k successfully downloaded images, and once it has returned the
\* records are, in download order, exactly the successfully downloaded images,
\* one record per image file; a video download or a failed download has none.
C1_RecordsMatchDownloads ==
    /\ pc \in LoopPcs => analysis_results = <<>>
    /\ LoopDone =>
          /\ StrsOf(downloaded_images) = ImagePathsDownloaded
          /\ Len(analysis_results) <= Len(ImagePathsDownloaded)
          /\ RecordPaths(analysis_results)
                = SubSeq(ImagePathsDownloaded, 1, Len(analysis_results))
    /\ AnalysisReturned =>
          /\ RecordPaths(analysis_results) = ImagePathsDownloaded
          /\ Distinct(RecordPaths(analysis_results))
          /\ \A n \in 1..Len(attempts) :
                ~IsImageDownloaded(attempts[n]) =>
                    \A m \in 1..Len(analysis_results) :
                        analysis_results[m].image_path # attempts[n].path

\* How far the method has come: every step of it raises this number, so no
\* run takes more steps than the dataset has posts, items and images.
Progress ==
    CASE pc = "start" -> 0
      [] pc = "call_actor" -> 1
      [] pc = "get_dataset" -> 2
      [] pc = "save_metadata" -> 3
      [] pc = "top_video" -> 10000 * i
      [] pc = "top_image" -> 10000 * i + 1
      [] pc = "carousel" -> 10000 * i + 1 + j
      [] pc = "analyze" -> 10000 * (Len(posts) + 1) + k
      [] OTHER -> 10000 * (Len(posts) + 2) + 10000

\* The method is at a statement that can run.
CanStep ==
    \/ pc \in {"start", "call_actor", "get_dataset", "save_metadata"}
    \/ pc \in LoopPcs /\ i \in 1..Len(posts) /\ j \in 0..(Len(posts[i].sidecarItems) + 1)
    \/ pc = "analyze" /\ k <= Len(downloaded_images)

\* C1: every image file whose download succeeded is eventually represented
\* by exactly one record, in download order, and no video and no failed
\* download ever has a record: the records match the downloads at every
\* step, every step brings the method closer to its end, the method is
\* never stuck before its end, and a run that downloaded anything ends only
\* after analyze_images has returned.
C1_EveryImageAnalyzedOnce ==
    /\ [](C1_RecordsMatchDownloads)
    /\ [](Terminated \/ CanStep)
    /\ [](Terminated /\ attempts # <<>> => AnalysisReturned)
    /\ [][Progress' > Progress]_vars

\* C1 witness: a finished run with a failed image download or a video
\* download, and two analyzed images, one of them with an error record.
C1_Witness ==
    /\ pc = "returned"
    /\ Len(analysis_results) = 2
    /\ \E n \in 1..Len(attempts) :
          \/ attempts[n].kind = "image" /\ attempts[n].returned = "False"
          \/ attempts[n].kind = "video" /\ attempts[n].returned = "True"
    /\ \E m \in 1..2 : "error" \in DOMAIN analysis_results[m]

\* C3 (as claimed): scrape_and_analyze never raises to its caller; whichever
\* step fails, directory creation included, the run ends by returning
\* {status: error, error: message}.
C3_NeverRaises ==
    /\ pc # "raised"
    /\ failedStep # "none" =>
          /\ pc = "returned"
          /\ result.status = "error"

\* C4 (as claimed): for every post the loop has left, the top-level media
\* attempted is one video download to videos/post_{i} when videoUrl is set
\* (and no image download), exactly one image download to images/post_{i}
\* when only displayUrl is set, and nothing when neither is set.
C4_TopLevelMedia ==
    \A p \in 1..Len(posts) :
        Processed(p) =>
            LET top == AttemptsAt(<<p, 0>>)
                post == posts[p]
            IN  /\ Cardinality(top) <= 1
                /\ HasVideo(post) =>
                      /\ Cardinality(top) = 1
                      /\ \A n \in top :
                            /\ attempts[n].kind = "video"
                            /\ attempts[n].url = post.videoUrl
                            /\ StartsWith(attempts[n].path,
                                   PathStr(PathJoin(VideosDir(UserName), PostName(p)))
                                       \o <<".">>)
                /\ ~HasVideo(post) /\ HasDisplay(post) =>
                      /\ Cardinality(top) = 1
                      /\ \A n \in top :
                            /\ attempts[n].kind = "image"
                            /\ attempts[n].url = post.displayUrl
                            /\ StartsWith(attempts[n].path,
                                   PathStr(PathJoin(ImagesDir(UserName), PostName(p)))
                                       \o <<".">>)
                /\ ~HasVideo(post) /\ ~HasDisplay(post) => top = {}

\* C5 (as claimed): for every post the loop has left, each carousel item has
\* at most one download: a video if it has a videoUrl, else an image if it has
\* a displayUrl, else nothing; the items are taken in order of their 1-based
\* index, whatever the post's own fields held.
C5_CarouselMedia ==
    \A p \in 1..Len(posts) :
        Processed(p) =>
            /\ \A q \in 1..Len(posts[p].sidecarItems) :
                  LET at == AttemptsAt(<<p, q>>)
                      item == posts[p].sidecarItems[q]
                  IN  /\ Cardinality(at) <= 1
                      /\ HasVideo(item) =>
                            /\ Cardinality(at) = 1
                            /\ \A n \in at :
                                  /\ attempts[n].kind = "video"
                                  /\ attempts[n].url = item.videoUrl
                      /\ ~HasVideo(item) /\ HasDisplay(item) =>
                            /\ Cardinality(at) = 1
                            /\ \A n \in at :
                                  /\ attempts[n].kind = "image"
                                  /\ attempts[n].url = item.displayUrl
                      /\ ~HasVideo(item) /\ ~HasDisplay(item) => at = {}
            /\ \A m, n \in 1..Len(attempts) :
                  /\ attempts[m].i = p
                  /\ attempts[n].i = p
                  /\ m < n
                  => attempts[m].j < attempts[n].j

\* C6: no two download_media calls of one run are given the same destination
\* path (each call is for a different post index, carousel index or kind).
C6_PathsInjective ==
    \A m, n \in 1..Len(attempts) :
        m # n =>
            /\ <<attempts[m].i, attempts[m].j>> # <<attempts[n].i, attempts[n].j>>
            /\ attempts[m].path # attempts[n].path

\* C6 witness: the post's own image and two images of its carousel have been
\* downloaded, all three with the extension .jpg.
C6_Witness ==
    \E l, m, n \in 1..Len(attempts) :
        /\ attempts[l].i = attempts[m].i
        /\ attempts[m].i = attempts[n].i
        /\ attempts[l].kind = "image"
        /\ attempts[m].kind = "image"
        /\ attempts[n].kind = "image"
        /\ attempts[l].j = 0
        /\ attempts[m].j = 1
        /\ attempts[n].j = 2

\* C7: once metadata.json has been written it holds the full post list at
\* every later step: when the first download or analysis is attempted, and
\* after a later step has failed.
C7_MetadataDurable ==
    (\/ pc \in LoopPcs
     \/ pc = "analyze"
     \/ pc = "returned" /\ failedStep \in {"none", "analysis_write"}
     \/ attempts # <<>>
     \/ k > 0)
    => /\ PathStr(MetadataPath(UserName)) \in DOMAIN fs
       /\ fs[PathStr(MetadataPath(UserName))].type = "json"
       /\ fs[PathStr(MetadataPath(UserName))].data = response
       /\ posts = response

\* C7 witness: the run failed writing analysis_results.json after downloads
\* (one of them left an unfinished file) and an analysis; metadata.json holds
\* the post list.
C7_Witness ==
    /\ pc = "returned"
    /\ failedStep = "analysis_write"
    /\ Len(posts) >= 2
    /\ k >= 1
    /\ \E p \in DOMAIN fs : fs[p].type = "partial"
    /\ fs[PathStr(MetadataPath(UserName))] = Json(posts)

\* A slot of the dataset that holds a URL and that no exception of its post
\* keeps the loop from reaching.
Reachable(postList, slot) ==
    /\ HasVideo(Desc(postList, slot)) \/ HasDisplay(Desc(postList, slot))
    /\ ~Barred(postList, slot)

C9_PostFailureIsolated ==
    \A e \in raisedAt :
        /\ \A n \in 1..Len(attempts) :
              attempts[n].i = e[1] => attempts[n].j < e[2]
        /\ Processed(e[1])
        /\ ~(pc = "returned" /\ failedStep = "none" /\ result.status # "success")
        /\ LoopDone =>
              \A slot \in Slots(posts) :
                  slot[1] > e[1] /\ Reachable(posts, slot) => AttemptsAt(slot) # {}
        /\ \A n \in 1..Len(attempts) :
              attempts[n].i = e[1] /\ IsImageDownloaded(attempts[n]) =>
                  \E m \in 1..Len(downloaded_images) :
                      PathStr(downloaded_images[m]) = attempts[n].path

\* C9 witness: the run succeeded although a carousel item of post 1 raised
\* after post 1 had downloaded an image; post 2 was downloaded and the image
\* of post 1 was analyzed.
C9_Witness ==
    /\ pc = "returned"
    /\ result.status = "success"
    /\ \E e \in raisedAt :
          /\ e[1] = 1
          /\ e[2] >= 1
          /\ \E n \in 1..Len(attempts) :
                attempts[n].i = 1 /\ IsImageDownloaded(attempts[n])
          /\ \E n \in 1..Len(attempts) : attempts[n].i = 2
    /\ Len(analysis_results) >= 1

\* The number of successful image downloads of the run.
ImagesDownloaded ==
    Cardinality({ n \in 1..Len(attempts) : IsImageDownloaded(attempts[n]) })

\* C10: a run ends with an error only through a failed pipeline step (actor
\* call, dataset request, metadata write, analysis write), never through a
\* failed download, post or image analysis; when those steps succeed the
\* summary has status success, images_analyzed is the number of successfully
\* downloaded images, error records included, and posts_processed is the
\* number of posts of the dataset.
C10_SummaryCounts ==
    pc = "returned" =>
        /\ result.status \in {"success", "error"}
        /\ result.status = "error" <=>
              failedStep \in {"actor", "dataset", "metadata", "analysis_write"}
        /\ result.status = "success" =>
              /\ failedStep = "none"
              /\ result.images_analyzed = ImagesDownloaded
              /\ result.images_analyzed = Len(analysis_results)
              /\ result.posts_processed = Len(response)

\* C10 witness: a successful summary of a run with two analyzed images, one
\* by an error record, and a failed download or a post that raised.
C10_Witness ==
    /\ pc = "returned"
    /\ result.status = "success"
    /\ result.images_analyzed = 2
    /\ \E m \in 1..Len(analysis_results) : "error" \in DOMAIN analysis_results[m]
    /\ \E m \in 1..Len(analysis_results) : "error" \notin DOMAIN analysis_results[m]
    /\ \/ \E n \in 1..Len(attempts) : attempts[n].returned = "False"
       \/ raisedAt # {}

\* C2: analyze_images has one record per image path it has taken, in input
\* order and with that path; the record of a path whose read or vision call
\* failed is {image_path, error}, the record of any other path is an analysis,
\* also when it comes after a failure.
C2_OneRecordPerInput ==
    /\ k <= Len(downloaded_images)
    /\ Len(analysis_results) = k
    /\ Len(analysisLog) = k
    /\ \A n \in 1..k :
          /\ analysis_results[n].image_path = PathStr(downloaded_images[n])
          /\ ~Readable(fs, downloaded_images[n]) => analysisLog[n] # "ok"
          /\ analysisLog[n] # "ok" =>
                DOMAIN analysis_results[n] = {"image_path", "error"}
          /\ analysisLog[n] = "ok" =>
                DOMAIN analysis_results[n]
                    = {"image_path", "faces", "labels", "safe_search"}

\* C2 witness: three paths, the first given twice; the first analysis failed
\* in the vision call, the second in the read, the third succeeded.
C2_Witness ==
    /\ Len(downloaded_images) = 3
    /\ k = 3
    /\ downloaded_images[1] = downloaded_images[3]
    /\ analysisLog = <<"vision_error", "read_error", "ok">>
    /\ "error" \notin DOMAIN analysis_results[3]

====
